---------------------------- MODULE Spec2Model ----------------------------
(***************************************************************************)
(* Model of the optimize-trip edge function                                *)
(* (supabase/functions/optimize-trip/index.ts): one request travelling     *)
(* through validation, the recommendation oracle call, the concurrent      *)
(* place-status checks, scoring, the greedy time-budget loop and the       *)
(* response.                                                               *)
(*                                                                         *)
(* Numbers.  Minutes and kilometres are integers.  The distances of the    *)
(* candidate pool are even, so (d / 40) * 60 is the integer (d * 60) / 40. *)
(* availableTime is a number of hours, kept as a fraction num/den whose    *)
(* product with 60 is an integer.  A score is the exact rational           *)
(* totalScore / ScoreDen, with ScoreDen fixed by the per-request           *)
(* normalisation maxima, so scores of one request compare by numerator.    *)
(* Strings that the code inspects character by character (category,        *)
(* preferences) are sequences of one-character strings.                    *)
(***************************************************************************)
EXTENDS Integers, Sequences, FiniteSets, TLC

(***************************************************************************)
(* Bounds of the model                                                     *)
(***************************************************************************)
MaxCands == 2

(***************************************************************************)
(* Program constants                                                       *)
(***************************************************************************)
AverageSpeedKmh == 40
DefaultVisitDuration == 60
DefaultPopularity == 5
MsPerMinute == 60000

(***************************************************************************)
(* Generic helpers                                                         *)
(***************************************************************************)
RECURSIVE SumInts(_)
SumInts(s) == IF s = <<>> THEN 0 ELSE Head(s) + SumInts(Tail(s))

\* Math.max(...vals) for a non-empty set of numbers
MaxOf(vals) == CHOOSE m \in vals : \A v \in vals : v <= m

(***************************************************************************)
(* Strings as character sequences: toLowerCase and includes                *)
(***************************************************************************)
UpperChars == <<"A","B","C","D","E","F","G","H","I","J","K","L","M",
                "N","O","P","Q","R","S","T","U","V","W","X","Y","Z">>
LowerChars == <<"a","b","c","d","e","f","g","h","i","j","k","l","m",
                "n","o","p","q","r","s","t","u","v","w","x","y","z">>

toLowerChar(c) ==
    IF \E i \in 1..26 : UpperChars[i] = c
    THEN LowerChars[CHOOSE i \in 1..26 : UpperChars[i] = c]
    ELSE c

toLowerCase(s) == [i \in 1..Len(s) |-> toLowerChar(s[i])]

includes(s, sub) ==
    \E i \in 0..(Len(s) - Len(sub)) : SubSeq(s, i + 1, i + Len(sub)) = sub

(***************************************************************************)
(* Inputs: the oracle's candidate pool.  distanceToSource = 0 and          *)
(* popularity = 0 stand for an absent (or zero) field: the code tests both *)
(* with a truthiness test.                                                 *)
(***************************************************************************)
Cultural == <<"c","u","l","t","u","r","a","l">>
Nature   == <<"n","a","t","u","r","e">>
Food     == <<"f","o","o","d">>

Dest(n, v, t, dF, dT, r, p, c) ==
    [name |-> n, visitTime |-> v, travelTimeFromSource |-> t,
     distanceFromSource |-> dF, distanceToSource |-> dT,
     rating |-> r, popularity |-> p, category |-> c]

\*               name   visit travel dFrom dTo rating popularity category
Museum == Dest("Museum", 30,   10,    4,  20,  4,     8,       Cultural)
Lake   == Dest("Lake",   20,   20,   20,   0,  4,     6,       Nature)
Fort   == Dest("Fort",   60,   30,   20,  10,  5,     0,       Cultural)
Cafe   == Dest("Cafe",   10,    0,    0,   0,  3,     5,       Food)

Pool == {Museum, Lake, Fort, Cafe}

RECURSIVE SeqsUpTo(_, _)
SeqsUpTo(S, n) ==
    IF n = 0 THEN {<<>>}
    ELSE LET shorter == SeqsUpTo(S, n - 1)
         IN shorter \cup {Append(s, x) : s \in {q \in shorter : Len(q) = n - 1}, x \in S}

CandidateLists == SeqsUpTo(Pool, MaxCands)

\* availableTime in hours; present = FALSE is a request without the field
Hours(n, d) == [present |-> TRUE, num |-> n, den |-> d]
NoHours == [present |-> FALSE, num |-> 0, den |-> 1]
AvailableTimes == {NoHours, Hours(0, 1), Hours(0 - 1, 1), Hours(7, 6), Hours(23, 20)}

PrefLists == {<<>>, << <<"S","e","a","F","o","o","d">>, <<"N","a","t">> >>}

(***************************************************************************)
(* Inputs: replies of the places directory (Text Search)                   *)
(***************************************************************************)
Period(od, hc, ch, cm) == [openDay |-> od, hasClose |-> hc, closeHour |-> ch, closeMinute |-> cm]

DirReply(k, hh, on, ps) == [kind |-> k, hasHours |-> hh, openNow |-> on, periods |-> ps]

\* kind: "throw"    fetch or json() throws
\*       "notok"    non-OK HTTP response
\*       "noplaces" places missing or empty
\*       "place"    places[0] exists; hasHours says whether currentOpeningHours is present
ReplyThrow    == DirReply("throw", FALSE, FALSE, <<>>)
ReplyNotOk    == DirReply("notok", FALSE, FALSE, <<>>)
ReplyNoPlaces == DirReply("noplaces", FALSE, FALSE, <<>>)
ReplyNoHours  == DirReply("place", FALSE, FALSE, <<>>)
ReplyClosed   == DirReply("place", TRUE, FALSE, << Period(1, TRUE, 18, 0) >>)
ReplyOpenSoon == DirReply("place", TRUE, TRUE, << Period(0, TRUE, 9, 0), Period(1, TRUE, 10, 25) >>)

DirReplies == {ReplyThrow, ReplyNotOk, ReplyNoPlaces, ReplyNoHours,
               ReplyClosed, ReplyOpenSoon}

\* new Date(): day of week and milliseconds since local midnight
Clock(d, h, m) == [day |-> d, ms |-> (h * 60 + m) * MsPerMinute]
NowTimes == {Clock(1, 10, 0)}


(***************************************************************************)
(* checkPlaceStatus (index.ts 9-101)                                       *)
(***************************************************************************)
AssumeOpen == [isOpen |-> TRUE, willStayOpen |-> TRUE]

\* closeTime = new Date(now); closeTime.setHours(closeHour, closeMinute, 0, 0)
closeTime(period) == (period.closeHour * 60 + period.closeMinute) * MsPerMinute

\* the for loop over today's periods: some period with a close time
\* earlier than the end of the visit
ClosesBeforeVisitEnds(periods, now, visitDurationMinutes) ==
    LET visitEndTime == now.ms + visitDurationMinutes * MsPerMinute
        isToday(period) == period.openDay = now.day
        todayPeriods == SelectSeq(periods, isToday)
    IN \E i \in 1..Len(todayPeriods) :
          /\ todayPeriods[i].hasClose
          /\ closeTime(todayPeriods[i]) < visitEndTime

\* variant: a place without opening hours counts as closed
checkPlaceStatus_noHoursClosed(hasMapsKey, reply, now, visitDurationMinutes) ==
    IF ~hasMapsKey THEN AssumeOpen
    ELSE IF reply.kind = "throw" THEN AssumeOpen
    ELSE IF reply.kind = "notok" THEN AssumeOpen
    ELSE IF reply.kind = "noplaces" THEN AssumeOpen
    ELSE IF ~reply.hasHours THEN [isOpen |-> FALSE, willStayOpen |-> FALSE]
    ELSE IF ~reply.openNow THEN [isOpen |-> FALSE, willStayOpen |-> FALSE]
    ELSE [isOpen |-> TRUE,
          willStayOpen |-> ~ClosesBeforeVisitEnds(reply.periods, now, visitDurationMinutes)]

\* variant: the catch block reports the place as closed
checkPlaceStatus_catchClosed(hasMapsKey, reply, now, visitDurationMinutes) ==
    IF ~hasMapsKey THEN AssumeOpen
    ELSE IF reply.kind = "throw" THEN [isOpen |-> FALSE, willStayOpen |-> FALSE]
    ELSE IF reply.kind = "notok" THEN AssumeOpen
    ELSE IF reply.kind = "noplaces" THEN AssumeOpen
    ELSE IF ~reply.hasHours THEN AssumeOpen
    ELSE IF ~reply.openNow THEN [isOpen |-> FALSE, willStayOpen |-> FALSE]
    ELSE [isOpen |-> TRUE,
          willStayOpen |-> ~ClosesBeforeVisitEnds(reply.periods, now, visitDurationMinutes)]

\* variant: without a directory key every place counts as closed
checkPlaceStatus_noKeyClosed(hasMapsKey, reply, now, visitDurationMinutes) ==
    IF ~hasMapsKey THEN [isOpen |-> FALSE, willStayOpen |-> FALSE]
    ELSE IF reply.kind = "throw" THEN AssumeOpen
    ELSE IF reply.kind = "notok" THEN AssumeOpen
    ELSE IF reply.kind = "noplaces" THEN AssumeOpen
    ELSE IF ~reply.hasHours THEN AssumeOpen
    ELSE IF ~reply.openNow THEN [isOpen |-> FALSE, willStayOpen |-> FALSE]
    ELSE [isOpen |-> TRUE,
          willStayOpen |-> ~ClosesBeforeVisitEnds(reply.periods, now, visitDurationMinutes)]

checkPlaceStatus(hasMapsKey, reply, now, visitDurationMinutes) ==
    IF ~hasMapsKey THEN AssumeOpen
    ELSE IF reply.kind = "throw" THEN AssumeOpen
    ELSE IF reply.kind = "notok" THEN AssumeOpen
    ELSE IF reply.kind = "noplaces" THEN AssumeOpen
    ELSE IF ~reply.hasHours THEN AssumeOpen
    ELSE IF ~reply.openNow THEN [isOpen |-> FALSE, willStayOpen |-> FALSE]
    ELSE [isOpen |-> TRUE,
          willStayOpen |-> ~ClosesBeforeVisitEnds(reply.periods, now, visitDurationMinutes)]

\* dest.visitTime || 60
VisitDuration(dest) == IF dest.visitTime # 0 THEN dest.visitTime ELSE DefaultVisitDuration

(***************************************************************************)
(* Records: { ...d, field: value }                                         *)
(***************************************************************************)
Extend(d, field, value) ==
    [x \in (DOMAIN d) \cup {field} |-> IF x = field THEN value ELSE d[x]]

\* { ...dest, ...status }; idx is the identity of the object, its position
\* in the destinations array
WithStatus(dest, i, status) ==
    Extend(Extend(Extend(dest, "idx", i), "isOpen", status.isOpen),
           "willStayOpen", status.willStayOpen)

(***************************************************************************)
(* Filtering (index.ts 221-244)                                            *)
(***************************************************************************)
\* variant: the filter looks at isOpen only
IsViable_openOnly(dest) == dest.isOpen

IsViable(dest) == dest.isOpen /\ dest.willStayOpen

\* variant: the reason is chosen from willStayOpen
skipReasonClosed_byStay(d) == IF ~d.willStayOpen THEN "Currently closed" ELSE "Will close during visit"

skipReasonClosed(d) == IF ~d.isOpen THEN "Currently closed" ELSE "Will close during visit"

(***************************************************************************)
(* Scoring (index.ts 250-281)                                              *)
(***************************************************************************)
WeightRating == 30
WeightDistance == 25
WeightTime == 20
WeightPreference == 15
WeightPopularity == 10

distanceOf(d) == d.distanceFromSource
legTime(d) == d.visitTime + d.travelTimeFromSource

\* route.reduce((sum, d) => sum + d.visitTime + d.travelTimeFromSource, 0)
sumLegTimes(route) == SumInts([i \in 1..Len(route) |-> legTime(route[i])])

\* Math.max(...openDestinations.map(d => d.distanceFromSource)), and the
\* same for visitTime + travelTimeFromSource
maxDistanceOf(open) == MaxOf({distanceOf(open[i]) : i \in 1..Len(open)})
maxTimeOf(open) == MaxOf({legTime(open[i]) : i \in 1..Len(open)})

\* variant: only "category includes preference" is tested
categoryMatch_oneWay(dest, userPreferences) ==
    \E i \in 1..Len(userPreferences) :
        includes(toLowerCase(dest.category), toLowerCase(userPreferences[i]))

categoryMatch(dest, userPreferences) ==
    \E i \in 1..Len(userPreferences) :
        \/ includes(toLowerCase(dest.category), toLowerCase(userPreferences[i]))
        \/ includes(toLowerCase(userPreferences[i]), toLowerCase(dest.category))

\* Sub-scores as fractions: rating, preference and popularity in tenths,
\* distance over NormD, time over NormT.
\* variant: the rating is not divided by 5
ratingScore10_undivided(dest) == dest.rating * 10

ratingScore10(dest) == dest.rating * 2
popularityScore10(dest) ==
    IF dest.popularity # 0 THEN dest.popularity ELSE DefaultPopularity
preferenceScore10(dest, userPreferences) ==
    IF Len(userPreferences) > 0
    THEN (IF categoryMatch(dest, userPreferences) THEN 10 ELSE 3)
    ELSE 5

\* denominators of the distance and time sub-scores
NormD(maxDistance) == IF maxDistance > 0 THEN maxDistance ELSE 1
NormT(maxTime) == IF maxTime > 0 THEN maxTime ELSE 1

\* variant: no guard for a maximum of 0, the sub-score is then 0
distanceScoreNum_unguarded(dest, maxDistance) == maxDistance - dest.distanceFromSource

distanceScoreNum(dest, maxDistance) ==
    IF maxDistance > 0 THEN maxDistance - dest.distanceFromSource ELSE 1
timeScoreNum(dest, maxTime) ==
    IF maxTime > 0 THEN maxTime - legTime(dest) ELSE 1

ScoreDen(maxDistance, maxTime) == 1000 * NormD(maxDistance) * NormT(maxTime)

\* totalScore * ScoreDen
totalScore(dest, maxDistance, maxTime, userPreferences) ==
    LET MD == NormD(maxDistance)
        MT == NormT(maxTime)
    IN   WeightRating * ratingScore10(dest) * MD * MT
       + WeightDistance * 10 * distanceScoreNum(dest, maxDistance) * MT
       + WeightTime * 10 * timeScoreNum(dest, maxTime) * MD
       + WeightPreference * preferenceScore10(dest, userPreferences) * MD * MT
       + WeightPopularity * popularityScore10(dest) * MD * MT

scoreAll(open, userPreferences) ==
    LET maxDistance == maxDistanceOf(open)
        maxTime == maxTimeOf(open)
    IN [i \in 1..Len(open) |->
          Extend(open[i], "score", totalScore(open[i], maxDistance, maxTime, userPreferences))]

(***************************************************************************)
(* Sorting (index.ts 284): Array.prototype.sort is stable, the comparator  *)
(* b.score - a.score orders by descending score                            *)
(***************************************************************************)
\* variant: an unstable sort, equal scores come out in reverse order
InsertSorted_unstable(sorted, x) ==
    LET k == Cardinality({i \in 1..Len(sorted) : sorted[i].score > x.score})
    IN SubSeq(sorted, 1, k) \o <<x>> \o SubSeq(sorted, k + 1, Len(sorted))

InsertSorted(sorted, x) ==
    LET k == Cardinality({i \in 1..Len(sorted) : sorted[i].score >= x.score})
    IN SubSeq(sorted, 1, k) \o <<x>> \o SubSeq(sorted, k + 1, Len(sorted))

RECURSIVE SortFrom(_, _)
SortFrom(sorted, rest) ==
    IF rest = <<>> THEN sorted
    ELSE SortFrom(InsertSorted(sorted, Head(rest)), Tail(rest))

sortByScore(s) == SortFrom(<<>>, s)

(***************************************************************************)
(* Greedy selection (index.ts 286-317)                                     *)
(***************************************************************************)
\* (km / 40) * 60
KmToMinutes(km) == (km * 60) \div AverageSpeedKmh

returnTime(destination) ==
    IF destination.distanceToSource # 0
    THEN KmToMinutes(destination.distanceToSource)
    ELSE destination.travelTimeFromSource

\* variant: a trip that uses the budget exactly does not fit
Fits_strict(completeTripTime, availMinutes) == completeTripTime < availMinutes

Fits(completeTripTime, availMinutes) == completeTripTime <= availMinutes

\* variant: the legs of the skipped destinations count as accumulated time
GreedyIter_countsSkipped(st, destination, availMinutes) ==
    LET timeRequired == legTime(destination)
        totalTripTime == sumLegTimes(st.route) + sumLegTimes(st.skipped) + timeRequired
        completeTripTime == totalTripTime + returnTime(destination)
    IN IF Fits(completeTripTime, availMinutes)
       THEN [route |-> Append(st.route, destination),
             skipped |-> st.skipped,
             remaining |-> availMinutes - completeTripTime]
       ELSE [route |-> st.route,
             skipped |-> Append(st.skipped, Extend(destination, "skipReason", "Insufficient time")),
             remaining |-> st.remaining]

\* variant: a destination that does not fit evicts the last accepted one
GreedyIter_evicts(st, destination, availMinutes) ==
    LET timeRequired == legTime(destination)
        totalTripTime ==
            IF Len(st.route) > 0
            THEN sumLegTimes(st.route) + timeRequired
            ELSE timeRequired
        completeTripTime == totalTripTime + returnTime(destination)
    IN IF Fits(completeTripTime, availMinutes)
       THEN [route |-> Append(st.route, destination),
             skipped |-> st.skipped,
             remaining |-> availMinutes - completeTripTime]
       ELSE [route |-> SubSeq(st.route, 1, Len(st.route) - 1),
             skipped |-> Append(st.skipped, Extend(destination, "skipReason", "Insufficient time")),
             remaining |-> st.remaining]

\* one iteration of the for loop; st = [route, skipped, remaining]
GreedyIter(st, destination, availMinutes) ==
    LET timeRequired == legTime(destination)
        totalTripTime ==
            IF Len(st.route) > 0
            THEN sumLegTimes(st.route) + timeRequired
            ELSE timeRequired
        completeTripTime == totalTripTime + returnTime(destination)
    IN IF Fits(completeTripTime, availMinutes)
       THEN [route |-> Append(st.route, destination),
             skipped |-> st.skipped,
             remaining |-> availMinutes - completeTripTime]
       ELSE [route |-> st.route,
             skipped |-> Append(st.skipped, Extend(destination, "skipReason", "Insufficient time")),
             remaining |-> st.remaining]

RECURSIVE GreedyLoop(_, _, _)
GreedyLoop(st, rest, availMinutes) ==
    IF rest = <<>> THEN st
    ELSE GreedyLoop(GreedyIter(st, Head(rest), availMinutes), Tail(rest), availMinutes)

(***************************************************************************)
(* Return leg and summary (index.ts 319-345)                               *)
(***************************************************************************)
\* variant: the return leg is taken from the first destination of the route
EstimatedReturn_first(route) ==
    IF Len(route) > 0
    THEN LET lastDestination == route[1]
         IN IF lastDestination.distanceToSource # 0
            THEN KmToMinutes(lastDestination.distanceToSource)
            ELSE KmToMinutes(lastDestination.distanceFromSource)
    ELSE 0

EstimatedReturn(route) ==
    IF Len(route) > 0
    THEN LET lastDestination == route[Len(route)]
         IN IF lastDestination.distanceToSource # 0
            THEN KmToMinutes(lastDestination.distanceToSource)
            ELSE KmToMinutes(lastDestination.distanceFromSource)
    ELSE 0

totalVisitTimeOf(route) == SumInts([i \in 1..Len(route) |-> route[i].visitTime])
totalTravelTimeOf(route) == SumInts([i \in 1..Len(route) |-> route[i].travelTimeFromSource])
totalDistanceOf(route) == SumInts([i \in 1..Len(route) |-> route[i].distanceFromSource])

Summary(route, estReturn) ==
    [totalLocations |-> Len(route),
     totalDistance |-> totalDistanceOf(route),
     totalVisitTime |-> totalVisitTimeOf(route),
     totalTravelTime |-> totalTravelTimeOf(route),
     totalTripTime |-> totalVisitTimeOf(route) + totalTravelTimeOf(route) + estReturn]

\* availableTime * 60
ToMinutes(availableTime) == (availableTime.num * 60) \div availableTime.den


(***************************************************************************)
(* State of one request                                                    *)
(***************************************************************************)
VARIABLES
    pc,                   \* position of the handler: "received", "awaitOracle",
                          \* "awaitStatus", "loop", "done"
    request,              \* method, startLocation (present or not), availableTime, userPreferences
    env,                  \* which of LOVABLE_API_KEY, GOOGLE_MAPS_API_KEY are configured
    oracle,               \* what the oracle answered: "none" before the answer, "ok", or the failure
    destinations,         \* the parsed oracle answer
    checks,               \* one promise per destination: state, directory reply, status
    statusChecks,         \* result of Promise.all
    openDestinations,
    sortedDestinations,   \* scoredDestinations, sorted in place
    availableMinutes,
    pos,                  \* index of the next element of the for loop
    optimizedRoute,
    skippedDestinations,
    remainingTime,
    estimatedReturnTime,
    summary,
    response,             \* status 0: no response yet
    rerun,                \* the scheduler run again on the route and skipped lists of the response
    conc,                 \* two requests served concurrently by one isolate: per request its
                          \* position, what it sent, what it was answered, its response
    frames,               \* the handler invocations' request fields that live across awaits
    lookup,               \* one call of checkPlaceStatus on its own: the directory's periods,
                          \* the clock, the visit duration and the returned status
    isSpeaking,           \* VoiceMode.tsx: React state of the narration controls
    isPaused,
    canResume,
    currentTextRef,       \* the text being narrated, "" for none
    speechState,          \* the narration saved by speechPersistence
    synthesis,            \* window.speechSynthesis: speaking and paused
    documentHidden,       \* document.hidden
    voicesLoaded,         \* getVoices() returns a non-empty list
    onvoiceschanged,      \* the handler speakResponse left on speechSynthesis
    canceledUtterance     \* a cancelled utterance whose error event is still to come

vars == <<pc, request, env, oracle, destinations, checks, statusChecks, openDestinations,
          sortedDestinations, availableMinutes, pos, optimizedRoute,
          skippedDestinations, remainingTime, estimatedReturnTime, summary,
          response, rerun, conc, frames, lookup, isSpeaking, isPaused, canResume,
          currentTextRef, speechState, synthesis, documentHidden, voicesLoaded,
          onvoiceschanged, canceledUtterance>>

concVars == <<conc, frames>>

statusVars == <<lookup>>

voiceVars == <<isSpeaking, isPaused, canResume, currentTextRef, speechState, synthesis,
               documentHidden, voicesLoaded, onvoiceschanged, canceledUtterance>>

pipelineVars == <<statusChecks, openDestinations, sortedDestinations, availableMinutes,
                  pos, optimizedRoute, skippedDestinations, remainingTime,
                  estimatedReturnTime, summary>>

NoResponse == [status |-> 0, kind |-> "none", error |-> "", keys |-> {}]
NoSummary == [totalLocations |-> 0]
NoRerun == [done |-> FALSE, route |-> <<>>]
NoStatus == [isOpen |-> FALSE, willStayOpen |-> FALSE]
ReplyNone == DirReply("none", FALSE, FALSE, <<>>)
NoClock == [day |-> 0, ms |-> 0]
Pending == [state |-> "pending", reply |-> ReplyNone, now |-> NoClock, status |-> NoStatus]

Methods == {"POST", "OPTIONS"}

Requests ==
    [method : Methods, startLocation : BOOLEAN,
     availableTime : AvailableTimes, userPreferences : PrefLists]

Envs == [lovableKey : BOOLEAN, mapsKey : BOOLEAN]

RequestIds == {1, 2}

ConcIdle == [r \in RequestIds |-> [pc |-> "idle"]]
NoFrames == [f \in RequestIds |-> [set |-> FALSE]]

NoLookup == [state |-> "none"]
LookupIdle == lookup = NoLookup

NoSpeechState == [saved |-> FALSE, text |-> "", isPaused |-> FALSE]
NoVoicesHandler == [set |-> FALSE, text |-> ""]
SynthesisIdle == [speaking |-> FALSE, paused |-> FALSE]

\* the component is not mounted
VoiceIdle ==
    /\ isSpeaking = FALSE
    /\ isPaused = FALSE
    /\ canResume = FALSE
    /\ currentTextRef = ""
    /\ speechState = NoSpeechState
    /\ synthesis = SynthesisIdle
    /\ documentHidden = FALSE
    /\ voicesLoaded = FALSE
    /\ onvoiceschanged = NoVoicesHandler
    /\ canceledUtterance = FALSE

Init ==
    /\ LookupIdle
    /\ VoiceIdle
    /\ conc = ConcIdle
    /\ frames = NoFrames
    /\ pc = "received"
    /\ request \in Requests
    /\ env \in Envs
    /\ oracle = "none"
    /\ destinations = <<>>
    /\ checks = <<>>
    /\ statusChecks = <<>>
    /\ openDestinations = <<>>
    /\ sortedDestinations = <<>>
    /\ availableMinutes = 0
    /\ pos = 0
    /\ optimizedRoute = <<>>
    /\ skippedDestinations = <<>>
    /\ remainingTime = 0
    /\ estimatedReturnTime = 0
    /\ summary = NoSummary
    /\ response = NoResponse
    /\ rerun = NoRerun

ErrorResponse(code, message) ==
    [status |-> code, kind |-> "error", error |-> message, keys |-> {"error"}]

\* variant: only startLocation is required
MissingFields_startOnly(req) == ~req.startLocation

\* !startLocation || !availableTime
MissingFields(req) ==
    \/ ~req.startLocation
    \/ ~req.availableTime.present
    \/ req.availableTime.num = 0

(***************************************************************************)
(* index.ts 104-106                                                        *)
(***************************************************************************)
Preflight ==
    /\ pc = "received"
    /\ request.method = "OPTIONS"
    /\ response' = [status |-> 200, kind |-> "preflight", error |-> "", keys |-> {}]
    /\ pc' = "done"
    /\ UNCHANGED <<concVars, statusVars, voiceVars, request, env, oracle, destinations, checks, pipelineVars, rerun>>

(***************************************************************************)
(* index.ts 109-116                                                        *)
(***************************************************************************)
RejectRequest ==
    /\ pc = "received"
    /\ request.method # "OPTIONS"
    /\ MissingFields(request)
    /\ response' = ErrorResponse(400, "Start location and available time are required")
    /\ pc' = "done"
    /\ UNCHANGED <<concVars, statusVars, voiceVars, request, env, oracle, destinations, checks, pipelineVars, rerun>>

(***************************************************************************)
(* index.ts 154-157, 360-366                                               *)
(***************************************************************************)
MissingOracleKey ==
    /\ pc = "received"
    /\ request.method # "OPTIONS"
    /\ ~MissingFields(request)
    /\ ~env.lovableKey
    /\ response' = ErrorResponse(500, "LOVABLE_API_KEY is not configured")
    /\ pc' = "done"
    /\ UNCHANGED <<concVars, statusVars, voiceVars, request, env, oracle, destinations, checks, pipelineVars, rerun>>

(***************************************************************************)
(* index.ts 161-175: the fetch is sent, the handler awaits the answer      *)
(***************************************************************************)
CallOracle ==
    /\ pc = "received"
    /\ request.method # "OPTIONS"
    /\ ~MissingFields(request)
    /\ env.lovableKey
    /\ pc' = "awaitOracle"
    /\ UNCHANGED <<concVars, statusVars, voiceVars, request, env, oracle, destinations, checks, pipelineVars, response, rerun>>

(***************************************************************************)
(* index.ts 161-204, 206-211, 360-366: the oracle's answer is not usable   *)
(***************************************************************************)
OracleFailures == {"throw", "status429", "status402", "status500",
                   "nocontent", "unparseable", "notarray"}

OracleErrorMessage(failure) ==
    CASE failure = "throw"       -> "fetch failed"
      [] failure = "status429"   -> "AI request failed: 429"
      [] failure = "status402"   -> "AI request failed: 402"
      [] failure = "status500"   -> "AI request failed: 500"
      [] failure = "nocontent"   -> "No content in AI response"
      [] failure = "unparseable" -> "Failed to parse AI response"
      [] failure = "notarray"    -> "destinations.map is not a function"

\* variant: the failure is logged and the handler goes on with the empty
\* destinations array
OracleFails_swallowed(failure) ==
    /\ pc = "awaitOracle"
    /\ oracle' = failure
    /\ destinations' = <<>>
    /\ checks' = <<>>
    /\ pc' = "awaitStatus"
    /\ UNCHANGED <<concVars, statusVars, voiceVars, request, env, pipelineVars, response, rerun>>

OracleFails(failure) ==
    /\ pc = "awaitOracle"
    /\ oracle' = failure
    /\ response' = ErrorResponse(500, OracleErrorMessage(failure))
    /\ pc' = "done"
    /\ UNCHANGED <<concVars, statusVars, voiceVars, request, env, destinations, checks, pipelineVars, rerun>>

(***************************************************************************)
(* index.ts 183-219: the answer parses to an array; one status check per   *)
(* destination is started and the handler awaits Promise.all               *)
(***************************************************************************)
OracleReplies(cands) ==
    /\ pc = "awaitOracle"
    /\ oracle' = "ok"
    /\ destinations' = cands
    /\ checks' = [i \in 1..Len(cands) |-> Pending]
    /\ pc' = "awaitStatus"
    /\ UNCHANGED <<concVars, statusVars, voiceVars, request, env, pipelineVars, response, rerun>>

(***************************************************************************)
(* index.ts 18-100, 212-217: the directory answers the lookup of           *)
(* destination i (or the lookup fails) and its promise settles             *)
(***************************************************************************)
DirectoryReplies(i, reply, now) ==
    /\ pc = "awaitStatus"
    /\ env.mapsKey
    /\ i \in 1..Len(checks)
    /\ checks[i].state = "pending"
    /\ checks' = [checks EXCEPT ![i] =
                    [state |-> "settled", reply |-> reply, now |-> now,
                     status |-> checkPlaceStatus(TRUE, reply, now, VisitDuration(destinations[i]))]]
    /\ UNCHANGED <<concVars, statusVars, voiceVars, pc, request, env, oracle, destinations, pipelineVars, response, rerun>>

(***************************************************************************)
(* index.ts 10-16, 212-217: without a directory key the check returns      *)
(* without any lookup                                                      *)
(***************************************************************************)
SkipLookup(i) ==
    /\ pc = "awaitStatus"
    /\ ~env.mapsKey
    /\ i \in 1..Len(checks)
    /\ checks[i].state = "pending"
    /\ checks' = [checks EXCEPT ![i] =
                    [state |-> "settled", reply |-> ReplyNone, now |-> NoClock,
                     status |-> checkPlaceStatus(FALSE, ReplyNone, NoClock, VisitDuration(destinations[i]))]]
    /\ UNCHANGED <<concVars, statusVars, voiceVars, pc, request, env, oracle, destinations, pipelineVars, response, rerun>>

(***************************************************************************)
(* index.ts 210-219: Promise.all resolves when every promise has settled,  *)
(* with the results in the order of the destinations                       *)
(***************************************************************************)
\* variant: the handler goes on as soon as one promise has settled
AllSettled_any(cs) == \E i \in 1..Len(cs) : cs[i].state = "settled"

AllSettled(cs) == \A i \in 1..Len(cs) : cs[i].state = "settled"

JoinedChecks == [i \in 1..Len(destinations) |-> WithStatus(destinations[i], i, checks[i].status)]

(***************************************************************************)
(* index.ts 210-244: no destination is open                                *)
(***************************************************************************)
NoOpenDestinations ==
    /\ pc = "awaitStatus"
    /\ AllSettled(checks)
    /\ LET joined == JoinedChecks
           open == SelectSeq(joined, IsViable)
       IN /\ Len(open) = 0
          /\ statusChecks' = joined
          /\ openDestinations' = open
          /\ remainingTime' = ToMinutes(request.availableTime)
          /\ summary' = [totalDestinations |-> 0, totalVisitTime |-> 0,
                         totalTravelTime |-> 0, returnTime |-> 0]
          /\ skippedDestinations' =
                [i \in 1..Len(joined) |-> Extend(joined[i], "skipReason", skipReasonClosed(joined[i]))]
          /\ response' = [status |-> 200, kind |-> "noOpen",
                          error |-> "No open destinations available at this time",
                          keys |-> {"error", "optimizedRoute", "remainingTime",
                                    "summary", "skippedDestinations"}]
    /\ pc' = "done"
    /\ UNCHANGED <<concVars, statusVars, voiceVars, request, env, oracle, destinations, checks, sortedDestinations, availableMinutes,
                   pos, optimizedRoute, estimatedReturnTime, rerun>>

(***************************************************************************)
(* index.ts 210-223, 246-288: filter, score, sort, set up the loop         *)
(***************************************************************************)
ScoreAndSort ==
    /\ pc = "awaitStatus"
    /\ AllSettled(checks)
    /\ LET joined == JoinedChecks
           open == SelectSeq(joined, IsViable)
       IN /\ Len(open) # 0
          /\ statusChecks' = joined
          /\ openDestinations' = open
          /\ availableMinutes' = ToMinutes(request.availableTime)
          /\ sortedDestinations' = sortByScore(scoreAll(open, request.userPreferences))
          /\ remainingTime' = ToMinutes(request.availableTime)
    /\ optimizedRoute' = <<>>
    /\ skippedDestinations' = <<>>
    /\ pos' = 1
    /\ pc' = "loop"
    /\ UNCHANGED <<concVars, statusVars, voiceVars, request, env, oracle, destinations, checks, estimatedReturnTime, summary,
                   response, rerun>>

(***************************************************************************)
(* index.ts 291-317: one iteration of the selection loop                   *)
(***************************************************************************)
GreedyStep ==
    /\ pc = "loop"
    /\ pos <= Len(sortedDestinations)
    /\ LET st == GreedyIter([route |-> optimizedRoute, skipped |-> skippedDestinations,
                             remaining |-> remainingTime],
                            sortedDestinations[pos], availableMinutes)
       IN /\ optimizedRoute' = st.route
          /\ skippedDestinations' = st.skipped
          /\ remainingTime' = st.remaining
    /\ pos' = pos + 1
    /\ UNCHANGED <<concVars, statusVars, voiceVars, pc, request, env, oracle, destinations, checks, statusChecks, openDestinations,
                   sortedDestinations, availableMinutes, estimatedReturnTime, summary,
                   response, rerun>>

(***************************************************************************)
(* index.ts 319-358: return leg, remaining time, summary, response         *)
(***************************************************************************)
Respond ==
    /\ pc = "loop"
    /\ pos > Len(sortedDestinations)
    /\ LET estReturn == EstimatedReturn(optimizedRoute)
           sm == Summary(optimizedRoute, estReturn)
       IN /\ estimatedReturnTime' = estReturn
          /\ summary' = sm
          /\ remainingTime' = availableMinutes - sm.totalTripTime
    /\ response' = [status |-> 200, kind |-> "itinerary", error |-> "",
                    keys |-> {"startLocation", "homeAddress", "optimizedRoute",
                              "remainingTime", "estimatedReturnTime", "summary",
                              "skippedDestinations"}]
    /\ pc' = "done"
    /\ UNCHANGED <<concVars, statusVars, voiceVars, request, env, oracle, destinations, checks, statusChecks, openDestinations,
                   sortedDestinations, availableMinutes, pos, optimizedRoute,
                   skippedDestinations, rerun>>

(***************************************************************************)
(* index.ts 283-317 applied to the output of the request: sort and greedy  *)
(* loop over optimizedRoute followed by skippedDestinations                *)
(***************************************************************************)
schedule(list, availMinutes) ==
    GreedyLoop([route |-> <<>>, skipped |-> <<>>, remaining |-> availMinutes],
               sortByScore(list), availMinutes)

Reschedule ==
    /\ pc = "done"
    /\ response.kind = "itinerary"
    /\ ~rerun.done
    /\ rerun' = [done |-> TRUE,
                 route |-> schedule(optimizedRoute \o skippedDestinations, availableMinutes).route]
    /\ UNCHANGED <<concVars, statusVars, voiceVars, pc, request, env, oracle, destinations, checks, pipelineVars, response>>

(***************************************************************************)
(* Specifications                                                          *)
(***************************************************************************)
HandlerStep ==
    \/ Preflight
    \/ RejectRequest
    \/ MissingOracleKey
    \/ CallOracle
    \/ \E i \in 1..MaxCands : SkipLookup(i)
    \/ NoOpenDestinations
    \/ ScoreAndSort
    \/ GreedyStep
    \/ Respond
    \/ Reschedule

Next ==
    \/ Preflight
    \/ RejectRequest
    \/ MissingOracleKey
    \/ CallOracle
    \/ \E failure \in OracleFailures : OracleFails(failure)
    \/ \E cands \in CandidateLists : OracleReplies(cands)
    \/ \E i \in 1..MaxCands, reply \in DirReplies, now \in NowTimes : DirectoryReplies(i, reply, now)
    \/ \E i \in 1..MaxCands : SkipLookup(i)
    \/ NoOpenDestinations
    \/ ScoreAndSort
    \/ GreedyStep
    \/ Respond
    \/ Reschedule

Spec == Init /\ [][Next]_vars

\* The handler's own steps always run; nothing obliges the oracle or the
\* directory to answer.
FairSpec == Init /\ [][Next]_vars /\ WF_vars(HandlerStep)


(***************************************************************************)
(* Two requests in one isolate.  JavaScript runs a handler without         *)
(* interruption between two awaits, so a request takes one step per await: *)
(* the body arrives (index.ts 109), the oracle answers (161), each         *)
(* directory lookup answers (21), Promise.all resolves (210) and the rest  *)
(* of the handler runs to its response.                                    *)
(***************************************************************************)

\* index.ts 221-358 as one function of the joined status checks and the
\* request fields
Pipeline(joined, availableTime, userPreferences) ==
    LET open == SelectSeq(joined, IsViable)
    IN IF Len(open) = 0
       THEN [status |-> 200, kind |-> "noOpen",
             optimizedRoute |-> <<>>,
             skippedDestinations |->
                 [i \in 1..Len(joined) |-> Extend(joined[i], "skipReason", skipReasonClosed(joined[i]))],
             remainingTime |-> ToMinutes(availableTime),
             estimatedReturnTime |-> 0]
       ELSE LET availMinutes == ToMinutes(availableTime)
                st == GreedyLoop([route |-> <<>>, skipped |-> <<>>, remaining |-> availMinutes],
                                 sortByScore(scoreAll(open, userPreferences)), availMinutes)
                estReturn == EstimatedReturn(st.route)
            IN [status |-> 200, kind |-> "itinerary",
                optimizedRoute |-> st.route,
                skippedDestinations |-> st.skipped,
                remainingTime |-> availMinutes - Summary(st.route, estReturn).totalTripTime,
                estimatedReturnTime |-> estReturn]

\* the inputs of the concurrent requests
ConcBodies == {[startLocation |-> TRUE, availableTime |-> Hours(7, 6), userPreferences |-> <<>>],
               [startLocation |-> TRUE, availableTime |-> Hours(23, 20),
                userPreferences |-> << <<"S","e","a","F","o","o","d">>, <<"N","a","t">> >>],
               [startLocation |-> TRUE, availableTime |-> NoHours, userPreferences |-> <<>>]}
ConcCandidateLists == SeqsUpTo({Museum, Cafe}, MaxCands)
ConcReplies == {ReplyClosed, ReplyNoHours}

\* the frame that holds the request fields of invocation r: the const
\* declaration is inside the handler, one frame per invocation
\* variant: the fields are module-level variables, one frame for all
FrameOf_shared(r) == 1

FrameOf(r) == r

ConcInit ==
    /\ conc = [r \in RequestIds |->
                 [pc |-> "received", body |-> [startLocation |-> FALSE],
                  failure |-> "none", answer |-> <<>>, checks |-> <<>>,
                  response |-> NoResponse]]
    /\ frames = NoFrames
    /\ LookupIdle
    /\ VoiceIdle
    /\ pc = "idle"
    /\ request = [method |-> "POST", startLocation |-> FALSE,
                  availableTime |-> NoHours, userPreferences |-> <<>>]
    /\ env = [lovableKey |-> TRUE, mapsKey |-> TRUE]
    /\ oracle = "none"
    /\ destinations = <<>>
    /\ checks = <<>>
    /\ statusChecks = <<>>
    /\ openDestinations = <<>>
    /\ sortedDestinations = <<>>
    /\ availableMinutes = 0
    /\ pos = 0
    /\ optimizedRoute = <<>>
    /\ skippedDestinations = <<>>
    /\ remainingTime = 0
    /\ estimatedReturnTime = 0
    /\ summary = NoSummary
    /\ response = NoResponse
    /\ rerun = NoRerun

mainVars == <<pc, request, env, oracle, destinations, checks, pipelineVars, response, rerun>>

(***************************************************************************)
(* index.ts 109-175: the body of request r arrives; its fields are stored, *)
(* validated, and the oracle is called                                     *)
(***************************************************************************)
ConcReceive(r, body) ==
    /\ conc[r].pc = "received"
    /\ frames' = [frames EXCEPT ![FrameOf(r)] =
                    [set |-> TRUE, availableTime |-> body.availableTime,
                     userPreferences |-> body.userPreferences]]
    /\ IF MissingFields(body)
       THEN conc' = [conc EXCEPT ![r].pc = "done", ![r].body = body,
                        ![r].response = ErrorResponse(400, "Start location and available time are required")]
       ELSE conc' = [conc EXCEPT ![r].pc = "awaitOracle", ![r].body = body]
    /\ UNCHANGED <<mainVars, statusVars, voiceVars>>

(***************************************************************************)
(* index.ts 177-204, 360-366                                               *)
(***************************************************************************)
ConcOracleFails(r, failure) ==
    /\ conc[r].pc = "awaitOracle"
    /\ conc' = [conc EXCEPT ![r].pc = "done", ![r].failure = failure,
                   ![r].response = ErrorResponse(500, OracleErrorMessage(failure))]
    /\ UNCHANGED <<frames, mainVars, statusVars, voiceVars>>

(***************************************************************************)
(* index.ts 183-219: the map callback of each status check keeps its dest  *)
(***************************************************************************)
ConcOracleReplies(r, cands) ==
    /\ conc[r].pc = "awaitOracle"
    /\ conc' = [conc EXCEPT ![r].pc = "awaitStatus", ![r].answer = cands,
                   ![r].checks = [i \in 1..Len(cands) |-> [dest |-> cands[i], check |-> Pending]]]
    /\ UNCHANGED <<frames, mainVars, statusVars, voiceVars>>

(***************************************************************************)
(* index.ts 18-100, 212-217                                                *)
(***************************************************************************)
ConcDirectoryReplies(r, i, reply, now) ==
    /\ conc[r].pc = "awaitStatus"
    /\ i \in 1..Len(conc[r].checks)
    /\ conc[r].checks[i].check.state = "pending"
    /\ conc' = [conc EXCEPT ![r].checks[i].check =
                   [state |-> "settled", reply |-> reply, now |-> now,
                    status |-> checkPlaceStatus(TRUE, reply, now,
                                                VisitDuration(conc[r].checks[i].dest))]]
    /\ UNCHANGED <<frames, mainVars, statusVars, voiceVars>>

(***************************************************************************)
(* index.ts 210-358: Promise.all resolves and the handler runs to its      *)
(* response, reading availableTime and userPreferences                     *)
(***************************************************************************)
ConcJoin(r) ==
    /\ conc[r].pc = "awaitStatus"
    /\ \A i \in 1..Len(conc[r].checks) : conc[r].checks[i].check.state = "settled"
    /\ LET joined == [i \in 1..Len(conc[r].checks) |->
                        WithStatus(conc[r].checks[i].dest, i, conc[r].checks[i].check.status)]
           mine == frames[FrameOf(r)]
       IN conc' = [conc EXCEPT ![r].pc = "done",
                      ![r].response = Pipeline(joined, mine.availableTime, mine.userPreferences)]
    /\ UNCHANGED <<frames, mainVars, statusVars, voiceVars>>

ConcNext ==
    \/ \E r \in RequestIds, body \in ConcBodies : ConcReceive(r, body)
    \/ \E r \in RequestIds, failure \in OracleFailures : ConcOracleFails(r, failure)
    \/ \E r \in RequestIds, cands \in ConcCandidateLists : ConcOracleReplies(r, cands)
    \/ \E r \in RequestIds, i \in 1..MaxCands, reply \in ConcReplies, now \in NowTimes :
          ConcDirectoryReplies(r, i, reply, now)
    \/ \E r \in RequestIds : ConcJoin(r)

ConcSpec == ConcInit /\ [][ConcNext]_vars

(***************************************************************************)
(* checkPlaceStatus on its own (index.ts 9-101): one call for a place      *)
(* whose directory entry has opening hours.  openNow is what the periods   *)
(* say at the time of the call.                                            *)
(***************************************************************************)
HandlerIdle ==
    /\ pc = "idle"
    /\ request = [method |-> "POST", startLocation |-> FALSE,
                  availableTime |-> NoHours, userPreferences |-> <<>>]
    /\ env = [lovableKey |-> TRUE, mapsKey |-> TRUE]
    /\ oracle = "none"
    /\ destinations = <<>>
    /\ checks = <<>>
    /\ statusChecks = <<>>
    /\ openDestinations = <<>>
    /\ sortedDestinations = <<>>
    /\ availableMinutes = 0
    /\ pos = 0
    /\ optimizedRoute = <<>>
    /\ skippedDestinations = <<>>
    /\ remainingTime = 0
    /\ estimatedReturnTime = 0
    /\ summary = NoSummary
    /\ response = NoResponse
    /\ rerun = NoRerun

ConcurrencyIdle == conc = ConcIdle /\ frames = NoFrames

\* a period of the directory: open {day, hour, minute}, close {day, hour, minute}
Shift(od, oh, om, cd, ch, cm) ==
    [openDay |-> od, openHour |-> oh, openMinute |-> om, hasClose |-> TRUE,
     closeDay |-> cd, closeHour |-> ch, closeMinute |-> cm]

\* a period without close: the place does not close
AlwaysOpen(od) ==
    [openDay |-> od, openHour |-> 0, openMinute |-> 0, hasClose |-> FALSE,
     closeDay |-> od, closeHour |-> 0, closeMinute |-> 0]

StatusPeriods ==
    { << Shift(1, 9, 0, 1, 18, 0) >>,
      << Shift(1, 9, 0, 1, 14, 0), Shift(1, 17, 0, 1, 22, 0) >>,
      << Shift(1, 18, 0, 2, 1, 0) >>,
      << AlwaysOpen(1) >>,
      << Shift(0, 9, 0, 0, 18, 0) >> }

StatusNows == {Clock(1, 10, 0), Clock(1, 13, 30), Clock(1, 18, 0), Clock(1, 20, 0), Clock(1, 23, 30)}

StatusVisits == {30, 60, 120}

\* the moment a period ends, in milliseconds since the midnight its day began
closesAt(period) ==
    closeTime(period)
      + (IF period.closeDay # period.openDay THEN 24 * 60 * MsPerMinute ELSE 0)

opensAt(period) == (period.openHour * 60 + period.openMinute) * MsPerMinute

\* currentOpeningHours.openNow as the directory derives it from the periods
openNowAt(periods, now) ==
    \E i \in 1..Len(periods) :
        /\ periods[i].openDay = now.day
        /\ opensAt(periods[i]) <= now.ms
        /\ ~periods[i].hasClose \/ now.ms < closesAt(periods[i])

HoursReply(periods, now) == DirReply("place", TRUE, openNowAt(periods, now), periods)

StatusInit ==
    /\ lookup \in {[state |-> "called", reply |-> HoursReply(periods, now), now |-> now,
                    visitDurationMinutes |-> visit, status |-> NoStatus] :
                      periods \in StatusPeriods, now \in StatusNows, visit \in StatusVisits}
    /\ HandlerIdle
    /\ ConcurrencyIdle
    /\ VoiceIdle

(***************************************************************************)
(* index.ts 50-95                                                          *)
(***************************************************************************)
ReturnStatus ==
    /\ lookup.state = "called"
    /\ lookup' = [lookup EXCEPT !.state = "returned",
                     !.status = checkPlaceStatus(TRUE, lookup.reply, lookup.now,
                                                 lookup.visitDurationMinutes)]
    /\ UNCHANGED <<mainVars, concVars, voiceVars>>

StatusNext == ReturnStatus

StatusSpec == StatusInit /\ [][StatusNext]_vars

(***************************************************************************)
(* Narration controls of VoiceMode.tsx.  The browser's speechSynthesis:    *)
(* speak() queues an utterance and sets speaking, cancel() empties the     *)
(* queue, pause() and resume() set and clear paused; an utterance that was *)
(* cancelled gets an end or an error event, depending on the browser.      *)
(***************************************************************************)
Texts == {"t1", "t2"}

\* speechPersistence: saveSpeechState(text, language, isPaused)
saveSpeechState(text, paused) == [saved |-> TRUE, text |-> text, isPaused |-> paused]

\* speechPersistence: updatePauseState(isPaused)
updatePauseState(state, paused) ==
    IF state.saved THEN [state EXCEPT !.isPaused = paused] ELSE state

\* speechPersistence: what loadSpeechState() finds when the component mounts
SavedAtMount == {NoSpeechState, saveSpeechState("t1", TRUE), saveSpeechState("t1", FALSE)}

\* VoiceMode.tsx 27-40: the component has mounted
VoiceInit ==
    /\ speechState \in SavedAtMount
    /\ voicesLoaded \in BOOLEAN
    /\ isSpeaking = FALSE
    /\ isPaused = (speechState.saved /\ speechState.isPaused)
    /\ canResume = (speechState.saved /\ speechState.isPaused)
    /\ currentTextRef = (IF speechState.saved /\ speechState.isPaused THEN speechState.text ELSE "")
    /\ synthesis = SynthesisIdle
    /\ documentHidden = FALSE
    /\ onvoiceschanged = NoVoicesHandler
    /\ canceledUtterance = FALSE
    /\ HandlerIdle
    /\ ConcurrencyIdle
    /\ LookupIdle

\* VoiceMode.tsx 246-298: speechSynthesis.cancel(); speechSynthesis.speak(utterance)
speak ==
    /\ synthesis' = [synthesis EXCEPT !.speaking = TRUE]
    /\ canceledUtterance' = (canceledUtterance \/ synthesis.speaking)

\* VoiceMode.tsx 234-310, called with isResume = false
speakResponse(text) ==
    /\ currentTextRef' = text
    /\ isSpeaking' = TRUE
    /\ isPaused' = FALSE
    /\ canResume' = FALSE
    /\ speechState' = NoSpeechState
    /\ IF voicesLoaded
       THEN speak /\ UNCHANGED onvoiceschanged
       ELSE /\ onvoiceschanged' = [set |-> TRUE, text |-> text]
            /\ UNCHANGED <<synthesis, canceledUtterance>>

(***************************************************************************)
(* VoiceMode.tsx 162-177: the answer to a query arrives and is narrated    *)
(***************************************************************************)
QueryAnswered(text) ==
    /\ speakResponse(text)
    /\ UNCHANGED <<documentHidden, voicesLoaded, mainVars, concVars, statusVars>>

(***************************************************************************)
(* VoiceMode.tsx 300-308: the voices arrive, the deferred speak() runs     *)
(***************************************************************************)
VoicesChanged ==
    /\ ~voicesLoaded
    /\ voicesLoaded' = TRUE
    /\ IF onvoiceschanged.set
       THEN speak /\ onvoiceschanged' = NoVoicesHandler
       ELSE UNCHANGED <<synthesis, canceledUtterance, onvoiceschanged>>
    /\ UNCHANGED <<isSpeaking, isPaused, canResume, currentTextRef, speechState,
                   documentHidden, mainVars, concVars, statusVars>>

(***************************************************************************)
(* VoiceMode.tsx 312-322, button shown while isSpeaking (398-402)          *)
(***************************************************************************)
pauseSpeaking ==
    /\ isSpeaking
    /\ synthesis.speaking
    /\ synthesis' = [synthesis EXCEPT !.paused = TRUE]
    /\ isSpeaking' = FALSE
    /\ isPaused' = TRUE
    /\ canResume' = TRUE
    /\ speechState' = (IF currentTextRef # "" THEN saveSpeechState(currentTextRef, TRUE)
                       ELSE speechState)
    /\ UNCHANGED <<currentTextRef, documentHidden, voicesLoaded, onvoiceschanged,
                   canceledUtterance, mainVars, concVars, statusVars>>

(***************************************************************************)
(* VoiceMode.tsx 324-335, button shown while isPaused or canResume         *)
(***************************************************************************)
resumeSpeaking ==
    /\ isPaused \/ canResume
    /\ IF synthesis.paused
       THEN /\ synthesis' = [synthesis EXCEPT !.paused = FALSE]
            /\ isSpeaking' = TRUE
            /\ isPaused' = FALSE
            /\ canResume' = FALSE
            /\ speechState' = updatePauseState(speechState, FALSE)
            /\ UNCHANGED <<currentTextRef, onvoiceschanged, canceledUtterance>>
       ELSE /\ currentTextRef # ""
            /\ speakResponse(currentTextRef)
    /\ UNCHANGED <<documentHidden, voicesLoaded, mainVars, concVars, statusVars>>

(***************************************************************************)
(* VoiceMode.tsx 337-346, button shown while isSpeaking, isPaused or       *)
(* canResume                                                               *)
(***************************************************************************)
stopSpeaking ==
    /\ isSpeaking \/ isPaused \/ canResume
    /\ synthesis' = [synthesis EXCEPT !.speaking = FALSE]
    /\ canceledUtterance' = (canceledUtterance \/ synthesis.speaking)
    /\ isSpeaking' = FALSE
    /\ isPaused' = FALSE
    /\ canResume' = FALSE
    /\ speechState' = NoSpeechState
    /\ currentTextRef' = ""
    /\ UNCHANGED <<documentHidden, voicesLoaded, onvoiceschanged, mainVars, concVars, statusVars>>

\* utterance.onend (VoiceMode.tsx 270-275)
onend ==
    /\ isSpeaking' = FALSE
    /\ isPaused' = FALSE
    /\ canResume' = FALSE
    /\ speechState' = NoSpeechState

\* utterance.onerror (VoiceMode.tsx 277-288)
onerror ==
    /\ isSpeaking' = FALSE
    /\ isPaused' = FALSE
    /\ UNCHANGED <<canResume, speechState>>

(***************************************************************************)
(* the utterance being spoken comes to its end                             *)
(***************************************************************************)
UtteranceEnds ==
    /\ synthesis.speaking
    /\ ~synthesis.paused
    /\ synthesis' = [synthesis EXCEPT !.speaking = FALSE]
    /\ onend
    /\ UNCHANGED <<currentTextRef, documentHidden, voicesLoaded, onvoiceschanged,
                   canceledUtterance, mainVars, concVars, statusVars>>

(***************************************************************************)
(* the utterance being spoken fails                                        *)
(***************************************************************************)
UtteranceFails ==
    /\ synthesis.speaking
    /\ synthesis' = [synthesis EXCEPT !.speaking = FALSE]
    /\ onerror
    /\ UNCHANGED <<currentTextRef, documentHidden, voicesLoaded, onvoiceschanged,
                   canceledUtterance, mainVars, concVars, statusVars>>

(***************************************************************************)
(* the event of a cancelled utterance is delivered to its handlers         *)
(***************************************************************************)
CanceledUtteranceEnds ==
    /\ canceledUtterance
    /\ canceledUtterance' = FALSE
    /\ onend
    /\ UNCHANGED <<currentTextRef, synthesis, documentHidden, voicesLoaded, onvoiceschanged,
                   mainVars, concVars, statusVars>>

CanceledUtteranceFails ==
    /\ canceledUtterance
    /\ canceledUtterance' = FALSE
    /\ onerror
    /\ UNCHANGED <<currentTextRef, synthesis, documentHidden, voicesLoaded, onvoiceschanged,
                   mainVars, concVars, statusVars>>

(***************************************************************************)
(* VoiceMode.tsx 142-151: visibilitychange, the page is hidden             *)
(***************************************************************************)
handleVisibilityChange ==
    /\ ~documentHidden
    /\ documentHidden' = TRUE
    /\ IF synthesis.speaking
       THEN /\ synthesis' = [synthesis EXCEPT !.paused = TRUE]
            /\ isPaused' = TRUE
            /\ canResume' = TRUE
            /\ speechState' = (IF currentTextRef # "" THEN saveSpeechState(currentTextRef, TRUE)
                               ELSE speechState)
       ELSE UNCHANGED <<synthesis, isPaused, canResume, speechState>>
    /\ UNCHANGED <<isSpeaking, currentTextRef, voicesLoaded, onvoiceschanged, canceledUtterance,
                   mainVars, concVars, statusVars>>

(***************************************************************************)
(* visibilitychange, the page is shown again: the handler does nothing     *)
(***************************************************************************)
PageShown ==
    /\ documentHidden
    /\ documentHidden' = FALSE
    /\ UNCHANGED <<isSpeaking, isPaused, canResume, currentTextRef, speechState, synthesis,
                   voicesLoaded, onvoiceschanged, canceledUtterance,
                   mainVars, concVars, statusVars>>

VoiceNext ==
    \/ \E text \in Texts : QueryAnswered(text)
    \/ VoicesChanged
    \/ pauseSpeaking
    \/ resumeSpeaking
    \/ stopSpeaking
    \/ UtteranceEnds
    \/ UtteranceFails
    \/ CanceledUtteranceEnds
    \/ CanceledUtteranceFails
    \/ handleVisibilityChange
    \/ PageShown

VoiceSpec == VoiceInit /\ [][VoiceNext]_vars

(***************************************************************************)
(* Properties                                                              *)
(***************************************************************************)
Responded == pc = "done" /\ response.kind \in {"itinerary", "noOpen"}
PastJoin == pc = "loop" \/ Responded

\* the status the check of candidate i returned
Verified(i) == checks[i].status
VerifiedViable(i) == Verified(i).isOpen /\ Verified(i).willStayOpen

\* the lookup of candidate i failed: the call threw or answered non-OK
LookupFailed(i) == checks[i].state = "settled" /\ checks[i].reply.kind \in {"throw", "notok"}

\* the lookup of candidate i left the status unknown
StatusUnknown(i) ==
    /\ checks[i].state = "settled"
    /\ \/ checks[i].reply.kind \in {"throw", "notok", "noplaces"}
       \/ checks[i].reply.kind = "place" /\ ~checks[i].reply.hasHours

RouteIdx == {optimizedRoute[k].idx : k \in 1..Len(optimizedRoute)}
SkippedIdx == {skippedDestinations[k].idx : k \in 1..Len(skippedDestinations)}
SortedIdx == {sortedDestinations[k].idx : k \in 1..Len(sortedDestinations)}

\* the time the traveller needs for the route of the response, return leg included
ActualTotalTime ==
    SumInts([k \in 1..Len(optimizedRoute) |-> optimizedRoute[k].visitTime])
    + SumInts([k \in 1..Len(optimizedRoute) |-> optimizedRoute[k].travelTimeFromSource])
    + estimatedReturnTime

\* C1: in every success response (of a request with a positive availableTime)
\* the visit times plus the travel times of the route plus the reported
\* estimatedReturnTime do not exceed availableTime * 60.
C1_BudgetNeverExceeded ==
    (pc = "done" /\ response.kind = "itinerary" /\ request.availableTime.num > 0)
        => ActualTotalTime <= ToMinutes(request.availableTime)

\* C2: a destination whose verified status has isOpen = false or
\* willStayOpen = false never appears in optimizedRoute.
C2_ClosedNeverInRoute ==
    \A k \in 1..Len(optimizedRoute) : VerifiedViable(optimizedRoute[k].idx)

C2_Witness ==
    /\ pc = "done"
    /\ response.kind = "itinerary"
    /\ optimizedRoute # <<>>
    /\ \E i \in 1..Len(checks) : Verified(i).isOpen /\ ~Verified(i).willStayOpen

\* C3: checkPlaceStatus returns {isOpen: true, willStayOpen: true} when the
\* directory finds no place, the call fails (non-OK answer or thrown error)
\* or the place has no opening hours; such a candidate is never filtered out.
C3_UnknownStatusFailsOpen ==
    \A i \in 1..Len(checks) :
        StatusUnknown(i) =>
            /\ Verified(i) = [isOpen |-> TRUE, willStayOpen |-> TRUE]
            /\ PastJoin => \E k \in 1..Len(openDestinations) : openDestinations[k].idx = i
            /\ Responded => i \in RouteIdx \/
                  \E k \in 1..Len(skippedDestinations) :
                      /\ skippedDestinations[k].idx = i
                      /\ skippedDestinations[k].skipReason = "Insufficient time"

C3_Witness ==
    /\ Responded
    /\ \E i \in 1..Len(checks) : checks[i].reply.kind = "noplaces"
    /\ \E i \in 1..Len(checks) : checks[i].reply.kind = "place" /\ ~checks[i].reply.hasHours

\* C4: whatever subset of the lookups fails, exactly those candidates are
\* taken as open, the other candidates keep the status their check returned,
\* and the request ends with an itinerary computed over all candidates, not
\* with an error.
C4_FailedLookupsDegradeToOpen ==
    (pc = "done" /\ Len(checks) > 0) =>
        /\ response.status = 200
        /\ response.kind \in {"itinerary", "noOpen"}
        /\ Len(statusChecks) = Len(destinations)
        /\ \A i \in 1..Len(checks) :
              /\ statusChecks[i].idx = i
              /\ statusChecks[i].name = destinations[i].name
              /\ LookupFailed(i) => statusChecks[i].isOpen /\ statusChecks[i].willStayOpen
              /\ (checks[i].reply.kind = "place" /\ checks[i].reply.hasHours) =>
                    /\ statusChecks[i].isOpen = checks[i].reply.openNow
                    /\ ~checks[i].reply.openNow => ~statusChecks[i].willStayOpen
        /\ (\E i \in 1..Len(checks) : LookupFailed(i)) =>
              /\ response.kind = "itinerary"
              /\ \A i \in 1..Len(checks) :
                    (statusChecks[i].isOpen /\ statusChecks[i].willStayOpen) <=> i \in SortedIdx
              /\ \A i \in 1..Len(checks) : LookupFailed(i) => i \in RouteIdx \cup SkippedIdx

C4_Witness ==
    /\ pc = "done"
    /\ response.kind = "itinerary"
    /\ \E i \in 1..Len(checks) : checks[i].reply.kind = "throw"
    /\ \E i \in 1..Len(checks) : checks[i].reply.kind = "place" /\ ~statusChecks[i].isOpen

\* C5: filtering, scoring and scheduling start only after the status check
\* of every candidate has completed.
C5_BarrierBeforeScoring ==
    (pc \in {"loop", "done"} \/ statusChecks # <<>> \/ openDestinations # <<>>
        \/ sortedDestinations # <<>> \/ optimizedRoute # <<>> \/ skippedDestinations # <<>>)
      => \A i \in 1..Len(checks) : checks[i].state = "settled"

C5_Witness ==
    /\ pc = "loop"
    /\ Len(checks) >= 2
    /\ sortedDestinations # <<>>
    /\ \A i \in 1..Len(checks) : checks[i].state = "settled"

\* C6: every request eventually gets a response, also when the oracle or a
\* directory lookup never answers.
C6_EveryRequestResponds == <>(response.status # 0)

\* C7: with a single open candidate, the candidate is accepted when
\* availableTime * 60 equals visitTime + travelTimeFromSource + return time,
\* and skipped with "Insufficient time" when the budget is one minute less.
\* The return time is the 40 km/h time of the candidate's way home, the
\* value the response reports for a route that ends at it.
RequiredTime(d) == legTime(d) + EstimatedReturn(<<d>>)

C7_ExactBudgetBoundary ==
    (pc = "done" /\ response.kind = "itinerary" /\ Len(openDestinations) = 1) =>
        LET d == sortedDestinations[1]
        IN /\ availableMinutes = RequiredTime(d) => optimizedRoute = <<d>>
           /\ availableMinutes = RequiredTime(d) - 1 =>
                 /\ optimizedRoute = <<>>
                 /\ Len(skippedDestinations) = 1
                 /\ skippedDestinations[1].idx = d.idx
                 /\ skippedDestinations[1].skipReason = "Insufficient time"

\* C8: the scheduler run again on optimizedRoute followed by
\* skippedDestinations, with their scores and the same availableMinutes,
\* yields the same optimizedRoute in the same order.
C8_RescheduleSameRoute ==
    rerun.done => rerun.route = optimizedRoute

C8_Witness ==
    /\ rerun.done
    /\ optimizedRoute # <<>>
    /\ skippedDestinations # <<>>
    /\ skippedDestinations[1].score > optimizedRoute[Len(optimizedRoute)].score

\* C9: the sorted list is in descending score order with equal scores in
\* their original candidate order, and the route keeps that order.
Before(a, b) == a.score > b.score \/ (a.score = b.score /\ a.idx < b.idx)

C9_StableScoreOrder ==
    /\ \A i, j \in 1..Len(sortedDestinations) :
          i < j => Before(sortedDestinations[i], sortedDestinations[j])
    /\ \A i, j \in 1..Len(optimizedRoute) :
          i < j => Before(optimizedRoute[i], optimizedRoute[j])

C9_Witness ==
    /\ pc = "done"
    /\ \E i, j \in 1..Len(optimizedRoute) :
          /\ i < j
          /\ optimizedRoute[i].score = optimizedRoute[j].score

\* C10: when no candidate is open and staying open, the response has an
\* empty optimizedRoute and lists every candidate in skippedDestinations,
\* with "Currently closed" if isOpen is false and "Will close during visit"
\* otherwise; scoring and the greedy loop are not run.
C10_NoOpenDestinations ==
    (pc \in {"loop", "done"} /\ Len(checks) = Len(destinations)
        /\ response.kind \notin {"error", "preflight"}
        /\ \A i \in 1..Len(checks) : ~VerifiedViable(i)) =>
        /\ pc = "done"
        /\ response.kind = "noOpen"
        /\ optimizedRoute = <<>>
        /\ Len(skippedDestinations) = Len(destinations)
        /\ \A i \in 1..Len(destinations) :
              /\ skippedDestinations[i].idx = i
              /\ skippedDestinations[i].name = destinations[i].name
              /\ skippedDestinations[i].skipReason =
                    (IF ~Verified(i).isOpen THEN "Currently closed" ELSE "Will close during visit")
        /\ sortedDestinations = <<>>
        /\ pos = 0

C10_Witness ==
    /\ pc = "done"
    /\ response.kind = "noOpen"
    /\ \E i \in 1..Len(skippedDestinations) : skippedDestinations[i].skipReason = "Currently closed"
    /\ \E i \in 1..Len(skippedDestinations) : skippedDestinations[i].skipReason = "Will close during visit"


\* the body fields of a success response (index.ts 348-356)
ItineraryKeys == {"startLocation", "homeAddress", "optimizedRoute", "skippedDestinations",
                  "remainingTime", "estimatedReturnTime", "summary"}

\* a trip request with both required fields
ValidPost == request.method # "OPTIONS" /\ ~MissingFields(request)

\* C11: the no-viable-destinations response has the envelope of the success
\* response (startLocation, homeAddress, optimizedRoute, skippedDestinations,
\* remainingTime, estimatedReturnTime, summary) with summary.totalLocations
\* = 0, and is a valid outcome, not an error response.
C11_NoViableSameEnvelope ==
    response.kind = "noOpen" =>
        /\ response.status = 200
        /\ response.keys = ItineraryKeys
        /\ "totalLocations" \in DOMAIN summary
        /\ summary.totalLocations = 0

\* C12: for a candidate that supplies distanceToSource, 0 included, the
\* return time of the acceptance test and the reported estimatedReturnTime
\* are (distanceToSource / 40) * 60; distanceFromSource is not used.  (A
\* distanceToSource of 0 in the pool is a supplied 0.)
C12_ReturnLegUsesDistanceToSource ==
    /\ (pc = "loop" /\ pos > 1 /\ optimizedRoute # <<>>
          /\ optimizedRoute[Len(optimizedRoute)].idx = sortedDestinations[pos - 1].idx) =>
            remainingTime = availableMinutes - sumLegTimes(optimizedRoute)
                              - KmToMinutes(optimizedRoute[Len(optimizedRoute)].distanceToSource)
    /\ (pc = "done" /\ response.kind = "itinerary" /\ optimizedRoute # <<>>) =>
            estimatedReturnTime = KmToMinutes(optimizedRoute[Len(optimizedRoute)].distanceToSource)

\* C13: a trip request without startLocation or without availableTime is
\* answered with status 400, and neither the oracle nor the directory is
\* called for it.
C13_MissingFieldsRejected ==
    (request.method # "OPTIONS" /\ (~request.startLocation \/ ~request.availableTime.present)) =>
        /\ pc \in {"received", "done"}
        /\ oracle = "none"
        /\ destinations = <<>>
        /\ checks = <<>>
        /\ pc = "done" => response.status = 400 /\ response.kind = "error"

C13_Witness ==
    /\ pc = "done"
    /\ request.startLocation
    /\ ~request.availableTime.present
    /\ response.status = 400

\* C14: a trip request whose availableTime is zero or negative is answered
\* with status 400 and never reaches the oracle or the scheduler.
C14_NonPositiveTimeRejected ==
    (request.method # "OPTIONS" /\ request.availableTime.present
        /\ request.availableTime.num <= 0) =>
        /\ pc \in {"received", "done"}
        /\ oracle = "none"
        /\ pc = "done" => response.status = 400

\* C15: when the oracle reports 429 or 402, the response carries that
\* status, not the 500 of the other oracle failures.
C15_RateLimitPassedThrough ==
    /\ oracle = "status429" => response.status = 429
    /\ oracle = "status402" => response.status = 402

\* C16: when the oracle call fails, returns no content or returns output
\* that does not parse into a candidate list, the request ends with status
\* 500 and an error message, and no status check, scoring or scheduling
\* takes place.
C16_OracleFailureIs500 ==
    oracle \in OracleFailures =>
        /\ pc = "done"
        /\ response.status = 500
        /\ response.kind = "error"
        /\ response.error # ""
        /\ response.keys = {"error"}
        /\ checks = <<>>
        /\ statusChecks = <<>>
        /\ sortedDestinations = <<>>
        /\ pos = 0
        /\ optimizedRoute = <<>>

C16_Witness ==
    /\ oracle = "unparseable"
    /\ response.error = "Failed to parse AI response"
    /\ response.status = 500

\* C17: in every itinerary response each candidate of the oracle is in
\* exactly one of optimizedRoute and skippedDestinations, and every skipped
\* entry has a skipReason, also when some candidates are closed and others
\* are open.
C17_EveryCandidateAccountedFor ==
    Responded =>
        /\ \A i \in 1..Len(destinations) :
              /\ Cardinality({k \in 1..Len(optimizedRoute) : optimizedRoute[k].idx = i})
                 + Cardinality({k \in 1..Len(skippedDestinations) : skippedDestinations[k].idx = i})
                 = 1
        /\ \A k \in 1..Len(skippedDestinations) :
              "skipReason" \in DOMAIN skippedDestinations[k]

\* C18: for candidates within their domains every sub-score and the total
\* score are in [0,1], and the five weights sum to 1.
C18_ScoresInUnitInterval ==
    /\ WeightRating + WeightDistance + WeightTime + WeightPreference + WeightPopularity = 100
    /\ \A k \in 1..Len(sortedDestinations) :
          LET d == sortedDestinations[k]
              mD == maxDistanceOf(openDestinations)
              mT == maxTimeOf(openDestinations)
          IN /\ d.score >= 0
             /\ d.score <= ScoreDen(mD, mT)
             /\ ratingScore10(d) \in 0..10
             /\ popularityScore10(d) \in 0..10
             /\ preferenceScore10(d, request.userPreferences) \in 0..10
             /\ distanceScoreNum(d, mD) >= 0
             /\ distanceScoreNum(d, mD) <= NormD(mD)
             /\ timeScoreNum(d, mT) >= 0
             /\ timeScoreNum(d, mT) <= NormT(mT)

C18_Witness ==
    /\ pc = "loop"
    /\ Len(sortedDestinations) >= 2
    /\ sortedDestinations[1].score > sortedDestinations[2].score
    /\ request.userPreferences # <<>>
    /\ \E k \in 1..Len(sortedDestinations) : sortedDestinations[k].popularity = 0

\* C19: a missing credential of any external dependency, the oracle key or
\* the directory key, ends the request with status 500 and no itinerary.
C19_MissingCredentialFatal ==
    (ValidPost /\ (~env.lovableKey \/ ~env.mapsKey) /\ pc = "done") =>
        response.status = 500 /\ response.kind = "error"

\* C19 as amended: a missing oracle key ends the request with status 500
\* and no itinerary; a missing directory key does not: every status check
\* returns open without a lookup and the request goes on to its itinerary.
C19_OnlyOracleKeyFatal ==
    /\ (ValidPost /\ ~env.lovableKey) =>
          /\ pc \in {"received", "done"}
          /\ oracle = "none"
          /\ checks = <<>>
          /\ optimizedRoute = <<>>
          /\ pc = "done" => response.status = 500 /\ response.kind = "error"
    /\ (ValidPost /\ env.lovableKey /\ ~env.mapsKey) =>
          /\ \A i \in 1..Len(checks) :
                checks[i].state = "settled" =>
                    /\ checks[i].reply.kind = "none"
                    /\ checks[i].status = [isOpen |-> TRUE, willStayOpen |-> TRUE]
          /\ (pc = "done" /\ oracle = "ok") =>
                /\ response.status = 200
                /\ Len(destinations) > 0 =>
                      /\ response.kind = "itinerary"
                      /\ Len(sortedDestinations) = Len(destinations)

C19_Witness ==
    /\ pc = "done"
    /\ ~env.mapsKey
    /\ response.kind = "itinerary"
    /\ optimizedRoute # <<>>


\* the response request r gets when it is processed alone: the handler's
\* computation applied to what r itself sent and was answered
AloneResponse(r) ==
    LET body == conc[r].body
        joined == [i \in 1..Len(conc[r].answer) |->
                     WithStatus(conc[r].answer[i], i, conc[r].checks[i].check.status)]
    IN IF MissingFields(body)
       THEN ErrorResponse(400, "Start location and available time are required")
       ELSE IF conc[r].failure # "none"
       THEN ErrorResponse(500, OracleErrorMessage(conc[r].failure))
       ELSE Pipeline(joined, body.availableTime, body.userPreferences)

\* C20: two requests processed concurrently share no mutable state: under
\* every interleaving the response of each equals the response it gets when
\* processed alone with the same oracle and directory answers.
C20_RequestsIndependent ==
    \A r \in RequestIds :
        conc[r].pc = "done" => conc[r].response = AloneResponse(r)

C20_Witness ==
    /\ \A r \in RequestIds : conc[r].pc = "done" /\ conc[r].response.kind = "itinerary"
    /\ conc[1].body # conc[2].body
    /\ conc[1].answer = conc[2].answer
    /\ conc[1].response # conc[2].response

\* the single-request handler and Pipeline compute the same response
PipelineMatchesHandler ==
    Responded =>
        LET p == Pipeline(statusChecks, request.availableTime, request.userPreferences)
        IN /\ p.kind = response.kind
           /\ p.optimizedRoute = optimizedRoute
           /\ p.skippedDestinations = skippedDestinations
           /\ p.remainingTime = remainingTime
           /\ p.estimatedReturnTime = estimatedReturnTime


\* position of the candidate with identity idx in the sorted list
SortedPos(idx) == CHOOSE k \in 1..Len(sortedDestinations) : sortedDestinations[k].idx = idx

\* the accumulated time when sortedDestinations[k] is decided: the legs of
\* the destinations before it that were accepted
AccumulatedBefore(k) ==
    SumInts([j \in 1..(k - 1) |->
               IF sortedDestinations[j].idx \in RouteIdx
               THEN sortedDestinations[j].visitTime + sortedDestinations[j].travelTimeFromSource
               ELSE 0])

\* C21: the loop accepts a candidate if and only if accumulated + visitTime
\* + travelTimeFromSource + returnTime <= availableMinutes, where accumulated
\* sums visitTime + travelTimeFromSource over the destinations accepted so
\* far and returnTime is the return time the loop computed for the
\* candidate; a rejected candidate goes to skipped and adds nothing to
\* accumulated.
C21_AcceptIffFits ==
    /\ \A k \in 1..Len(sortedDestinations) :
          k < pos =>
            LET d == sortedDestinations[k]
            IN /\ (d.idx \in RouteIdx) <=>
                     (AccumulatedBefore(k) + d.visitTime + d.travelTimeFromSource
                        + returnTime(d) <= availableMinutes)
               /\ (d.idx \in RouteIdx) # (d.idx \in SkippedIdx)
    /\ pc = "loop" => sumLegTimes(optimizedRoute) = AccumulatedBefore(pos)

C21_Witness ==
    /\ pc = "done"
    /\ Len(optimizedRoute) = 1
    /\ Len(skippedDestinations) = 1
    /\ SortedPos(skippedDestinations[1].idx) < SortedPos(optimizedRoute[1].idx)
    /\ legTime(skippedDestinations[1]) + legTime(optimizedRoute[1])
          + returnTime(optimizedRoute[1]) > availableMinutes

\* C22: for a candidate without distanceToSource the acceptance test uses
\* (distanceFromSource / 40) * 60 as return time, the value reported as
\* estimatedReturnTime when the candidate is the last of the route.
C22_FallbackIsDistanceFromSource ==
    \A k \in 1..Len(sortedDestinations) :
        (k < pos /\ sortedDestinations[k].distanceToSource = 0 /\ availableMinutes > 0) =>
            LET d == sortedDestinations[k]
            IN (d.idx \in RouteIdx) <=>
                  (AccumulatedBefore(k) + legTime(d)
                     + (d.distanceFromSource * 60) \div AverageSpeedKmh <= availableMinutes)

\* the distance home of a destination: distanceToSource, else distanceFromSource
DistanceHome(d) == IF d.distanceToSource # 0 THEN d.distanceToSource ELSE d.distanceFromSource

\* C23: estimatedReturnTime is the 40 km/h time of the distance home of the
\* last destination of optimizedRoute, whatever was rejected or accepted
\* before it, and 0 when optimizedRoute is empty.
C23_ReturnFromLastOnly ==
    (pc = "done" /\ response.kind = "itinerary") =>
        estimatedReturnTime =
            (IF optimizedRoute = <<>> THEN 0
             ELSE (DistanceHome(optimizedRoute[Len(optimizedRoute)]) * 60) \div AverageSpeedKmh)

C23_Witness ==
    /\ pc = "done"
    /\ response.kind = "itinerary"
    /\ Len(optimizedRoute) = 2
    /\ DistanceHome(optimizedRoute[1]) # DistanceHome(optimizedRoute[2])
    /\ estimatedReturnTime > 0

IsPrefix(a, b) == Len(a) <= Len(b) /\ SubSeq(b, 1, Len(a)) = a

\* C24: the loop decides each open candidate exactly once, in the order of
\* the sorted list, and no decision is revisited: the route and the skipped
\* list only grow at their ends, one candidate per iteration, and the route
\* is a subsequence of the sorted list.
C24_SinglePassIrrevocable ==
    /\ [](/\ \A i, j \in 1..Len(optimizedRoute) :
               i < j => SortedPos(optimizedRoute[i].idx) < SortedPos(optimizedRoute[j].idx)
          /\ pc = "loop" => Len(optimizedRoute) + Len(skippedDestinations) = pos - 1
          /\ (pc = "done" /\ response.kind = "itinerary") =>
                /\ RouteIdx \cup SkippedIdx = SortedIdx
                /\ RouteIdx \cap SkippedIdx = {})
    /\ [][/\ IsPrefix(optimizedRoute, optimizedRoute')
          /\ IsPrefix(skippedDestinations, skippedDestinations')
          /\ (pc = "loop" /\ pos' # pos) =>
                /\ pos' = pos + 1
                /\ \/ /\ optimizedRoute' = Append(optimizedRoute, sortedDestinations[pos])
                      /\ skippedDestinations' = skippedDestinations
                   \/ /\ optimizedRoute' = optimizedRoute
                      /\ Len(skippedDestinations') = Len(skippedDestinations) + 1
                      /\ skippedDestinations'[Len(skippedDestinations')].idx
                            = sortedDestinations[pos].idx]_vars

C24_Witness ==
    /\ pc = "done"
    /\ \E i \in 1..Len(optimizedRoute), j \in 1..Len(skippedDestinations) :
          /\ SortedPos(skippedDestinations[j].idx) < SortedPos(optimizedRoute[i].idx)
          /\ skippedDestinations[j].score > optimizedRoute[i].score

\* the candidate alone fits the budget, with the return time of the loop
FitsAlone(d) == d.visitTime + d.travelTimeFromSource + returnTime(d) <= availableMinutes

\* C25: if some open candidate alone fits the budget (visitTime +
\* travelTimeFromSource + return time <= availableMinutes), the route is not
\* empty and starts with the highest-scored such candidate.
C25_FirstIsBestFitting ==
    (pc = "done" /\ response.kind = "itinerary"
        /\ \E k \in 1..Len(sortedDestinations) : FitsAlone(sortedDestinations[k])) =>
        /\ optimizedRoute # <<>>
        /\ FitsAlone(optimizedRoute[1])
        /\ \A k \in 1..Len(sortedDestinations) :
              FitsAlone(sortedDestinations[k]) => SortedPos(optimizedRoute[1].idx) <= k

C25_Witness ==
    /\ pc = "done"
    /\ response.kind = "itinerary"
    /\ Len(sortedDestinations) = 2
    /\ ~FitsAlone(sortedDestinations[1])
    /\ FitsAlone(sortedDestinations[2])
    /\ optimizedRoute = <<sortedDestinations[2]>>

\* sub occurs in s, letter case ignored
ContainsIgnoringCase(s, sub) ==
    \E k \in 0..(Len(s) - Len(sub)) :
        \A j \in 1..Len(sub) : toLowerChar(s[k + j]) = toLowerChar(sub[j])

\* the preference sub-score in tenths, as the claim states it
StatedPreference10(d) ==
    IF Len(request.userPreferences) = 0 THEN 5
    ELSE IF \E i \in 1..Len(request.userPreferences) :
               \/ ContainsIgnoringCase(d.category, request.userPreferences[i])
               \/ ContainsIgnoringCase(request.userPreferences[i], d.category)
         THEN 10
         ELSE 3

\* the score of d without its preference term, over ScoreDen
ScoreWithoutPreference(d, maxDistance, maxTime) ==
    LET MD == NormD(maxDistance)
        MT == NormT(maxTime)
    IN   WeightRating * ratingScore10(d) * MD * MT
       + WeightDistance * 10 * distanceScoreNum(d, maxDistance) * MT
       + WeightTime * 10 * timeScoreNum(d, maxTime) * MD
       + WeightPopularity * popularityScore10(d) * MD * MT

\* C26: the preference sub-score of a scored destination is 1.0 when its
\* category contains, or is contained in, one of the requested preferences
\* (letter case ignored), 0.3 when preferences were supplied and none
\* matches, and 0.5 when no preferences were supplied.
C26_PreferenceSubScore ==
    \A k \in 1..Len(sortedDestinations) :
        LET d == sortedDestinations[k]
            maxDistance == maxDistanceOf(openDestinations)
            maxTime == maxTimeOf(openDestinations)
        IN d.score - ScoreWithoutPreference(d, maxDistance, maxTime)
              = WeightPreference * StatedPreference10(d) * NormD(maxDistance) * NormT(maxTime)

C26_Witness ==
    /\ pc = "done"
    /\ Len(request.userPreferences) > 0
    /\ \E k \in 1..Len(sortedDestinations) : StatedPreference10(sortedDestinations[k]) = 3
    /\ \E k \in 1..Len(sortedDestinations), i \in 1..Len(request.userPreferences) :
          /\ ~ContainsIgnoringCase(sortedDestinations[k].category, request.userPreferences[i])
          /\ ContainsIgnoringCase(request.userPreferences[i], sortedDestinations[k].category)
          /\ request.userPreferences[i] # toLowerCase(request.userPreferences[i])

\* the candidates whose status check returned open and staying open
ViableIdx == {i \in 1..Len(checks) : VerifiedViable(i)}

\* C27: the distance and time sub-scores are 1 - value / maximum with the
\* maximum taken over the open candidates only, and 1 for every destination
\* when that maximum is 0.
C27_NormalizedOverOpenOnly ==
    (PastJoin /\ sortedDestinations # <<>>) =>
        LET maxD == MaxOf({destinations[i].distanceFromSource : i \in ViableIdx})
            maxT == MaxOf({destinations[i].visitTime + destinations[i].travelTimeFromSource : i \in ViableIdx})
            denD == IF maxD = 0 THEN 1 ELSE maxD
            denT == IF maxT = 0 THEN 1 ELSE maxT
        IN \A k \in 1..Len(sortedDestinations) :
              LET d == sortedDestinations[k]
                  numD == IF maxD = 0 THEN 1 ELSE maxD - d.distanceFromSource
                  numT == IF maxT = 0 THEN 1 ELSE maxT - (d.visitTime + d.travelTimeFromSource)
              IN d.score =   WeightRating * ratingScore10(d) * denD * denT
                           + WeightDistance * 10 * numD * denT
                           + WeightTime * 10 * numT * denD
                           + WeightPreference * preferenceScore10(d, request.userPreferences) * denD * denT
                           + WeightPopularity * popularityScore10(d) * denD * denT

C27_Witness ==
    /\ pc = "done"
    /\ sortedDestinations # <<>>
    /\ \A k \in 1..Len(sortedDestinations) : sortedDestinations[k].distanceFromSource = 0
    /\ \E i \in 1..Len(checks) : ~VerifiedViable(i) /\ destinations[i].distanceFromSource > 0

\* C29: in every success response (of a request with a positive
\* availableTime) remainingTime is availableMinutes minus the visit times,
\* the travel times and estimatedReturnTime, remainingTime +
\* summary.totalTripTime = availableMinutes, summary.totalLocations is the
\* length of optimizedRoute, and remainingTime is not negative.
C29_RemainingTimeConsistent ==
    (pc = "done" /\ response.kind = "itinerary" /\ request.availableTime.num > 0) =>
        /\ remainingTime = availableMinutes - ActualTotalTime
        /\ remainingTime + summary.totalTripTime = availableMinutes
        /\ summary.totalLocations = Len(optimizedRoute)
        /\ remainingTime >= 0

\* the closing times of today's periods that have not ended at the time of
\* the call
ApplicableCloses(periods, now) ==
    {closesAt(periods[i]) : i \in {j \in 1..Len(periods) :
                                     /\ periods[j].openDay = now.day
                                     /\ periods[j].hasClose
                                     /\ closesAt(periods[j]) > now.ms}}

\* C28: for a place that is open, checkPlaceStatus returns willStayOpen =
\* false exactly when the time of the call plus the visit duration exceeds
\* the earliest applicable closing time of the day (a period of today that
\* has already ended does not count, a period that closes after midnight
\* closes on the next day); for a place that is not open it returns
\* willStayOpen = false.
C28_WillStayOpenByClosingTime ==
    lookup.state = "returned" =>
        LET visitEnd == lookup.now.ms + lookup.visitDurationMinutes * MsPerMinute
        IN IF lookup.reply.openNow
           THEN /\ lookup.status.isOpen
                /\ lookup.status.willStayOpen =
                      ~(\E c \in ApplicableCloses(lookup.reply.periods, lookup.now) : visitEnd > c)
           ELSE ~lookup.status.willStayOpen

\* C30: in the narration controls of VoiceMode isSpeaking and isPaused are
\* never both true, and after stop or the end of an utterance isSpeaking,
\* isPaused and canResume are all false and the saved speech state is
\* cleared.
C30_NarrationFlagsConsistent ==
    /\ [](~(isSpeaking /\ isPaused))
    /\ [][(stopSpeaking \/ UtteranceEnds \/ CanceledUtteranceEnds) =>
             (~isSpeaking' /\ ~isPaused' /\ ~canResume' /\ speechState' = NoSpeechState)]_vars

=============================================================================
